---- MODULE Spec2Model ----
(***************************************************************************)
(* Open-RO dashboard (src/app.py): the process-wide CACHE and load_data,   *)
(* the filter engine apply_filters, and the /health, /api/reload,          *)
(* /api/stats, /api/rows and /api/filter-options handlers.                 *)
(*                                                                         *)
(* Text is a sequence of one-character strings, so that strip(), upper()   *)
(* and str.contains() are computed character by character.  A cell of the  *)
(* sheet is [na, s]: pandas' missing marker (na) or the text s.  A         *)
(* timestamp is a number of half seconds; NaT is the missing timestamp.    *)
(***************************************************************************)
EXTENDS Integers, Sequences, FiniteSets, TLC

\* ------------------------------------------------------------- bounds
MaxRows == 2        \* rows of the remote sheet
MaxCacheRows == 2   \* rows of the sheet while the clock runs
MaxClock == 5       \* wall-clock seconds the cache is observed for
MaxSkip == 2        \* largest skip of a rows query
MaxLimit == 1       \* largest limit of a rows query
MaxCriteria == 2    \* criteria one request sets at once
MaxRequests == 3    \* requests served in one concurrent run
MaxConcClock == 2   \* wall-clock seconds of one concurrent run
MaxColumns == 2     \* model columns of the sheet

\* ---------------------------------------------------------- constants
CACHE_SECONDS == 2
SECOND == 2
DAY == 172800
NaT == -2            \* pd.NaT, the missing timestamp
None == -1           \* Python's None where a timestamp is expected
NoError == "null"    \* Python's None in CACHE["error"]

\* ----------------------------------------------------------------- text
Lower == <<"a","b","c","d","e","f","g","h","i","j","k","l","m",
           "n","o","p","q","r","s","t","u","v","w","x","y","z">>
Upper == <<"A","B","C","D","E","F","G","H","I","J","K","L","M",
           "N","O","P","Q","R","S","T","U","V","W","X","Y","Z">>

UpperChar(c) ==
    IF \E i \in DOMAIN Lower : Lower[i] = c
    THEN Upper[CHOOSE i \in DOMAIN Lower : Lower[i] = c]
    ELSE c

\* str.upper()
StrUpper(s) == [i \in DOMAIN s |-> UpperChar(s[i])]

\* the lower-case letter of each upper-case letter
LowerOf == [c \in {Upper[i] : i \in DOMAIN Upper} |->
               Lower[CHOOSE i \in DOMAIN Upper : Upper[i] = c]]

LowerChar(c) == IF c \in DOMAIN LowerOf THEN LowerOf[c] ELSE c

\* str.lower()
StrLower(s) == [i \in DOMAIN s |-> LowerChar(s[i])]

RECURSIVE LStrip(_)
LStrip(s) == IF s # <<>> /\ Head(s) = " " THEN LStrip(Tail(s)) ELSE s

RECURSIVE RStrip(_)
RStrip(s) ==
    IF s # <<>> /\ s[Len(s)] = " " THEN RStrip(SubSeq(s, 1, Len(s) - 1)) ELSE s

\* str.strip()
Strip(s) == RStrip(LStrip(s))

\* re.search(pat, txt) for a pattern of literal characters and ".", the one
\* metacharacter of the alphabet used here: "." matches any character.
RegexSearch(pat, txt) ==
    \E off \in 0..(Len(txt) - Len(pat)) :
        \A j \in 1..Len(pat) : pat[j] = "." \/ pat[j] = txt[off + j]

\* literals of the program
All == <<"A","l","l">>
Dash == <<"-">>
NanText == <<"n","a","n">>
NoReason == <<"N","o"," ","r","e","a","s","o","n">>
Unknown == <<"U","n","k","n","o","w","n">>
B0_3 == <<"0","-","3"," ","d","a","y","s">>
B4_10 == <<"4","-","1","0"," ","d","a","y","s">>
B11_15 == <<"1","1","-","1","5"," ","d","a","y","s">>
B16_30 == <<"1","6","-","3","0"," ","d","a","y","s">>
B31_60 == <<"3","1","-","6","0"," ","d","a","y","s">>
BAbove60 == <<"A","b","o","v","e"," ","6","0">>

\* the labels of MODEL_CANDIDATES
L_ModelName == <<"M","o","d","e","l"," ","N","a","m","e">>
L_Model == <<"M","o","d","e","l">>
L_Model_Name == <<"M","o","d","e","l","_","N","a","m","e">>
L_MODEL_NAME == <<"M","O","D","E","L"," ","N","A","M","E">>
L_MODEL == <<"M","O","D","E","L">>
L_ModelGroup == <<"M","o","d","e","l"," ","G","r","o","u","p">>
L_ModelGroupJoined == <<"M","o","d","e","l","G","r","o","u","p">>
L_MODEL_GROUP == <<"M","O","D","E","L"," ","G","R","O","U","P">>
MODEL_CANDIDATES ==
    <<L_ModelName, L_Model, L_Model_Name, L_MODEL_NAME,
      L_MODEL, L_ModelGroup, L_ModelGroupJoined, L_MODEL_GROUP>>

\* ---------------------------------------------------------------- cells
NaN == [na |-> TRUE, s |-> <<>>]
Txt(s) == [na |-> FALSE, s |-> s]

\* str(v) / Series.astype(str): the missing marker prints as "nan"
AsStr(c) == IF c.na THEN NanText ELSE c.s

safe_str(v, default) ==
    IF v.na THEN default
    ELSE LET s == Strip(AsStr(v)) IN IF s = <<>> THEN default ELSE s

\* A date text is [fmt, ts]: fmt "ymd" is text in one of the explicit
\* formats (a calendar day, no time of day), "lenient" is text only the
\* day-first fallback parses (it may carry a time of day), "junk" is text
\* nothing parses, "dash" one of the tokens "", "-", "nan", "NaT", "None".
DayStart(ts) == (ts \div DAY) * DAY

parse_date_any(v) ==
    IF v.na THEN NaT
    ELSE CASE v.s.fmt = "dash" -> NaT
           [] v.s.fmt = "ymd" -> DayStart(v.s.ts)
           [] v.s.fmt = "lenient" -> v.s.ts
           [] OTHER -> NaT

\* a date text of a request ("empty" is the text ""); None is "no bound"
parse_iso_yyyy_mm_dd(s) ==
    CASE s.fmt = "empty" -> None
      [] s.fmt = "ymd" -> DayStart(s.ts)
      [] s.fmt = "lenient" -> s.ts
      [] OTHER -> None

\* A money text is [fmt, val]: "num" is text that leaves a number once the
\* currency prefix and separators are stripped, anything else leaves none.
clean_money_to_float(x) ==
    IF x.na THEN 0
    ELSE IF x.s.fmt = "num" THEN x.s.val ELSE 0

age_bucket_Exclusive(days) ==
    IF days < 3 THEN B0_3
    ELSE IF days < 10 THEN B4_10
    ELSE IF days < 15 THEN B11_15
    ELSE IF days < 30 THEN B16_30
    ELSE IF days < 60 THEN B31_60
    ELSE BAbove60

age_bucket_from_days(days) ==
    IF days <= 3 THEN B0_3
    ELSE IF days <= 10 THEN B4_10
    ELSE IF days <= 15 THEN B11_15
    ELSE IF days <= 30 THEN B16_30
    ELSE IF days <= 60 THEN B31_60
    ELSE BAbove60

\* ------------------------------------------------------- the remote sheet
\* One row of the sheet: the columns the pipeline reads.
\* `model` is the cell of the first model column the sheet has and `alt` the
\* cell of its later model columns.
Row(ro, dealer, status, sr, hold, model, alt, reg, date, amt, parts, labor) ==
    [ro |-> ro, dealer |-> dealer, status |-> status, sr |-> sr, hold |-> hold,
     model |-> model, alt |-> alt, reg |-> reg, date |-> date,
     amt |-> amt, parts |-> parts, labor |-> labor]

DateYmd(day) == Txt([fmt |-> "ymd", ts |-> day * DAY])
DateLenient(ts) == Txt([fmt |-> "lenient", ts |-> ts])
DateJunk == Txt([fmt |-> "junk", ts |-> 0])
Money(v) == Txt([fmt |-> "num", val |-> v])
MoneyJunk == Txt([fmt |-> "junk", val |-> 0])

\* the last half second of calendar day d
LastTick(d) == d * DAY + DAY - 1
\* 23:59:59 of calendar day d
LastSecond(d) == d * DAY + DAY - SECOND

Row1 ==
    Row(Txt(<<"1">>), Txt(<<"K">>), Txt(<<"O">>), Txt(<<"P">>), NaN,
        Txt(<<"Q">>), Txt(<<"Z">>), Txt(<<"k","A">>), DateYmd(2),
        Money(100), Money(60), Money(40))
Row2 ==
    Row(Txt(<<"2">>), Txt(<<"K">>), Txt(<<"C">>), Txt(<<"P">>), Txt(<<"W">>),
        NaN, Txt(<<"Z">>), Txt(<<"B",".">>), DateLenient(LastTick(2)),
        Money(-50), MoneyJunk, NaN)
Row3 ==
    Row(Txt(<<"3">>), Txt(<<" ","K">>), Txt(<<"O">>), Txt(<<"R">>),
        Txt(<<" ","W"," ">>), Txt(<<"Q">>), NaN, NaN, NaN,
        MoneyJunk, NaN, Money(5))
Row4 ==
    Row(Txt(<<"4">>), Txt(<<"M">>), Txt(<<"C">>), Txt(<<"R">>), NaN,
        Txt(<<"Q"," ">>), Txt(<<"Y">>), Txt(<<"A","b">>), DateLenient(LastSecond(7)),
        NaN, Money(7), Money(-3))

\* opened on the same day as Row1
Row5 ==
    Row(Txt(<<"5">>), Txt(<<"M">>), Txt(<<"O">>), Txt(<<"P">>), Txt(<<"W">>),
        Txt(<<"Y">>), Txt(<<"Z">>), Txt(<<"C">>), DateYmd(2),
        Money(1), Money(1), NaN)

RawRows == {Row1, Row2, Row3, Row4}

RECURSIVE SeqsUpTo(_, _)
SeqsUpTo(S, n) ==
    IF n = 0 THEN {<<>>}
    ELSE LET shorter == SeqsUpTo(S, n - 1)
         IN shorter \cup {Append(q, x) : q \in shorter, x \in S}

\* what the published CSV can hold
Sheets == SeqsUpTo(RawRows, MaxRows)
\* the sheets the cache is refreshed from while the clock runs
CacheSheets == SeqsUpTo({Row1, Row3}, MaxCacheRows)
\* the sheets the loader is run on: every kind of date, two rows of one day
LoadRows == {Row1, Row2, Row3, Row4, Row5}
LoadSheets == SeqsUpTo(LoadRows, MaxRows)
\* the calendar days they are loaded on: a day before Row1 was opened and the
\* days that put Row1 on either side of each age threshold
LoadDays == {1, 5, 6, 12, 13, 17, 18, 32, 33, 62, 63}
\* the labels a sheet's model columns carry: candidates as listed, in another
\* case, and with a space the CSV header kept
Labels == {L_ModelName, L_ModelName \o <<" ">>, StrLower(L_ModelName) \o <<" ">>,
           L_MODEL, L_ModelGroup}
\* a CSV header has no label twice
ColumnLists ==
    {h \in SeqsUpTo(Labels, MaxColumns) :
        \A i, j \in DOMAIN h : i # j => h[i] # h[j]}
\* the sheet the interleaved threads load
ConcSheets == {<<Row1>>}
\* the calendar days a load can happen on
Todays == {6}

\* ------------------------------------------------------------ the loader
\* Python's None where a column label is expected
NoCol == <<>>

\* line 197: df.columns = [str(c).strip() for c in df.columns]
Columns(header) == [i \in DOMAIN header |-> Strip(header[i])]

\* lines 126-135: the column the first candidate found in lower_map stands
\* for; in lower_map a later column replaces an earlier one of the same key
pick_first_existing_column(cols, candidates) ==
    LET key(c) == StrLower(Strip(c))
        keys == [i \in DOMAIN cols |-> key(cols[i])]
        lower_map(k) ==
            cols[CHOOSE i \in DOMAIN cols :
                    /\ keys[i] = k
                    /\ \A j \in DOMAIN cols : keys[j] = k => j <= i]
        hits == {n \in DOMAIN candidates :
                    LET k == key(candidates[n])
                    IN \E i \in DOMAIN cols : keys[i] = k}
    IN IF hits = {} THEN NoCol
       ELSE lower_map(key(candidates[CHOOSE n \in hits : \A m \in hits : n <= m]))

\* lines 226-229
ResolveModelCol(cols) ==
    LET model_col == pick_first_existing_column(cols, MODEL_CANDIDATES)
    IN IF model_col = NoCol THEN L_ModelName ELSE model_col

\* df[model_col] is one column only if one column carries the label
Ambiguous(cols, label) == Cardinality({i \in DOMAIN cols : cols[i] = label}) > 1

\* the cell of row r in df[model_col]; a synthesized column holds None
ModelCell(r, cols, model_col) ==
    IF \A i \in DOMAIN cols : cols[i] # model_col THEN NaN
    ELSE IF cols[1] = model_col THEN r.model ELSE r.alt

\* load_data's derived columns for one row, on calendar day `day`
Enrich(r, model_cell, day) ==
    LET dt == parse_date_any(r.date)
        diff == IF dt = NaT THEN 0 ELSE (day * DAY - dt) \div DAY
        days == IF diff < 0 THEN 0 ELSE diff
        hold == Strip(safe_str(r.hold, <<>>))
        model == Strip(safe_str(model_cell, <<>>))
    IN [ro |-> r.ro, dealer |-> r.dealer, status |-> r.status, sr |-> r.sr,
        reg |-> r.reg,
        RO_DATE_DT |-> dt,
        DAYS_OPEN |-> days,
        AGE_BUCKET |-> age_bucket_from_days(days),
        HOLD_REASON_CLEAN |-> IF hold = <<>> THEN NoReason ELSE hold,
        MODEL_NAME_CLEAN |-> IF model = <<>> THEN Unknown ELSE model,
        RO_AMOUNT_NUM |-> clean_money_to_float(r.amt),
        PARTS_AMOUNT_NUM |-> clean_money_to_float(r.parts),
        LABOR_AMOUNT_NUM |-> clean_money_to_float(r.labor)]

\* a sorts strictly before b: descending RO_DATE_DT, NaT last
SortsBefore(a, b) ==
    /\ a.RO_DATE_DT # NaT
    /\ b.RO_DATE_DT = NaT \/ a.RO_DATE_DT > b.RO_DATE_DT

\* df.sort_values("RO_DATE_DT", ascending=False, na_position="last"): the
\* frames the call can return.  The rows without a date are appended in their
\* original order; the dated rows are ordered by the default kind="quicksort",
\* which is not a stable sort, so rows of equal date come out in any order.
sort_values(df) ==
    LET n == Len(df)
        perms == {p \in [1..n -> 1..n] : \A i, j \in 1..n : i # j => p[i] # p[j]}
        sorted_by(p) ==
            \A i, j \in 1..n : i < j =>
                /\ ~SortsBefore(df[p[j]], df[p[i]])
                /\ (df[p[i]].RO_DATE_DT = NaT /\ df[p[j]].RO_DATE_DT = NaT)
                       => p[i] < p[j]
    IN {[i \in 1..n |-> df[p[i]]] : p \in {q \in perms : sorted_by(q)}}

\* the frames load_data can build from a fetched sheet (lines 221-260)
\* lines 232-257: the frame with its derived columns, in the sheet's order
EnrichAll(cols, model_col, sheet, day) ==
    [i \in DOMAIN sheet |->
        Enrich(sheet[i], ModelCell(sheet[i], cols, model_col), day)]

BuildFrames(cols, model_col, sheet, day) ==
    sort_values(EnrichAll(cols, model_col, sheet, day))

\* ------------------------------------------------------------ the filters
Keys == {"branch", "status", "age_bucket", "sr_type", "hold_reason",
         "model_name", "reg_search", "from_date", "to_date"}
TextKeys == Keys \ {"from_date", "to_date"}
EmptyDate == [fmt |-> "empty", ts |-> 0]

\* A request's query string is [q, from_date, to_date]: q maps the text keys
\* that are present to their text, and a date key that is not present has
\* fmt "absent".
\* request.args.get(key, default) of a text key
Get(args, key, default) == IF key \in DOMAIN args.q THEN args.q[key] ELSE default
\* request.args.get(key, "") of a date key
GetDate(d) == IF d.fmt = "absent" THEN EmptyDate ELSE d

Restricts_NoSentinel(v) == v # <<>>

\* `if branch and branch != "All"`: the criterion restricts
Restricts(v) == v # <<>> /\ v # All

\* out[mask] is SelectSeq(out, mask): the rows that satisfy mask, in order
\* lines 297-298
by_branch(out, branch) ==
    IF Restricts(branch) THEN SelectSeq(out, LAMBDA r : AsStr(r.dealer) = branch) ELSE out
\* lines 299-300
by_status(out, status) ==
    IF Restricts(status) THEN SelectSeq(out, LAMBDA r : AsStr(r.status) = status) ELSE out
\* lines 301-302
by_age_bucket(out, age_bucket) ==
    IF Restricts(age_bucket)
    THEN SelectSeq(out, LAMBDA r : r.AGE_BUCKET = age_bucket) ELSE out
\* lines 303-304
by_sr_type(out, sr_type) ==
    IF Restricts(sr_type) THEN SelectSeq(out, LAMBDA r : AsStr(r.sr) = sr_type) ELSE out
\* lines 305-306
by_hold_reason(out, hold_reason) ==
    IF Restricts(hold_reason)
    THEN SelectSeq(out, LAMBDA r : r.HOLD_REASON_CLEAN = hold_reason) ELSE out
\* lines 307-308
by_model_name(out, model_name) ==
    IF Restricts(model_name)
    THEN SelectSeq(out, LAMBDA r : r.MODEL_NAME_CLEAN = model_name) ELSE out

\* lines 310-312: str.contains takes its argument as a regular expression
by_reg_search(out, reg_search) ==
    IF reg_search # <<>>
    THEN LET key == StrUpper(reg_search)
         IN SelectSeq(out, LAMBDA r : RegexSearch(key, StrUpper(AsStr(r.reg))))
    ELSE out

\* lines 319-320: a comparison with NaT is false
by_from_date(out, fd) ==
    IF fd # None
    THEN SelectSeq(out, LAMBDA r : r.RO_DATE_DT # NaT /\ r.RO_DATE_DT >= fd)
    ELSE out

\* lines 321-323
by_to_date(out, td) ==
    IF td # None
    THEN LET td_end == td + DAY - SECOND
         IN SelectSeq(out, LAMBDA r : r.RO_DATE_DT # NaT /\ r.RO_DATE_DT <= td_end)
    ELSE out

apply_filters(df, args) ==
    LET branch == Get(args, "branch", All)
        status == Get(args, "status", All)
        age_bucket == Get(args, "age_bucket", All)
        sr_type == Get(args, "sr_type", All)
        hold_reason == Get(args, "hold_reason", All)
        model_name == Get(args, "model_name", All)
        reg_search == Strip(Get(args, "reg_search", <<>>))
        from_date == GetDate(args.from_date)
        to_date == GetDate(args.to_date)
        o1 == by_branch(df, branch)
        o2 == by_status(o1, status)
        o3 == by_age_bucket(o2, age_bucket)
        o4 == by_sr_type(o3, sr_type)
        o5 == by_hold_reason(o4, hold_reason)
        o6 == by_model_name(o5, model_name)
        o7 == by_reg_search(o6, reg_search)
        fd == IF from_date.fmt # "empty" THEN parse_iso_yyyy_mm_dd(from_date) ELSE None
        td == IF to_date.fmt # "empty" THEN parse_iso_yyyy_mm_dd(to_date) ELSE None
        o8 == by_from_date(o7, fd)
    IN by_to_date(o8, td)

\* fmt_ddmmyyyy: "-" or the calendar day
fmt_ddmmyyyy(ts) ==
    IF ts = NaT THEN [dash |-> TRUE, day |-> 0]
    ELSE [dash |-> FALSE, day |-> ts \div DAY]

json_row(r) ==
    [ro_id |-> safe_str(r.ro, Dash),
     ro_date |-> fmt_ddmmyyyy(r.RO_DATE_DT),
     branch |-> safe_str(r.dealer, Dash),
     status |-> safe_str(r.status, Dash),
     sr_type |-> safe_str(r.sr, Dash),
     hold_reason |-> safe_str(Txt(r.HOLD_REASON_CLEAN), Dash),
     model_name |-> safe_str(Txt(r.MODEL_NAME_CLEAN), Dash),
     reg_number |-> safe_str(r.reg, Dash),
     age_bucket |-> safe_str(Txt(r.AGE_BUCKET), Dash),
     days |-> r.DAYS_OPEN,
     total_ro_amount |-> r.RO_AMOUNT_NUM,
     total_parts_amount |-> r.PARTS_AMOUNT_NUM,
     total_labor_amount |-> r.LABOR_AMOUNT_NUM]

\* seq[lo:hi] of Python, for 0 <= lo
Slice(seq, lo, hi) ==
    LET a == lo + 1
        b == IF hi < Len(seq) THEN hi ELSE Len(seq)
    IN IF a > b THEN <<>> ELSE SubSeq(seq, a, b)

RECURSIVE SumOf_Magnitudes(_, _)
SumOf_Magnitudes(seq, f) ==
    IF seq = <<>> THEN 0
    ELSE (IF Head(seq)[f] < 0 THEN 0 - Head(seq)[f] ELSE Head(seq)[f])
         + SumOf_Magnitudes(Tail(seq), f)

\* Series.sum()
RECURSIVE SumOf(_, _)
SumOf(seq, f) ==
    IF seq = <<>> THEN 0 ELSE Head(seq)[f] + SumOf(Tail(seq), f)

\* ------------------------------------------------------------- the state
VARIABLES
    CACHE,      \* the process-wide cache: df, model_col, loaded_at, error
    clock,      \* datetime.now(), in seconds
    today,      \* date.today(), a calendar day
    remote,     \* the sheet published at GOOGLE_SHEET_CSV_URL: its rows
    columns,    \* the labels of its model columns, as the CSV header has them
    net,        \* "up" or "down": whether requests.get reaches the sheet
    last,       \* history: the last load_data call (who, fetched?, succeeded?)
    built_at,   \* history: the clock when the held frame was built, or None
    query,      \* request.args: the query string the client sends
    req,        \* the last request served: endpoint, skip, limit
    resp,       \* its response
    thr,        \* request threads: where each is in its handler, its locals
    served,     \* requests the threads have taken up
    stable      \* history: what the cache held whenever no load was publishing

vars == <<CACHE, clock, today, remote, columns, net, last, built_at, query, req, resp,
          thr, served, stable>>

\* the state of the request threads
conc == <<thr, served, stable>>

FetchError == "ConnectionError"
FrameError == "Can only use .dt accessor with datetimelike values"
AmbiguousError == "The truth value of a Series is ambiguous"

\* What the try block of load_data can end with (lines 219-260): a built
\* frame and the model column, or the exception's text.  A sheet with a header
\* and no rows gives an empty object column, on which the .dt accessor of line
\* 234 raises.  When two columns carry the model column's label, df[model_col]
\* is a frame and safe_str (line 244) tests the truth value of a Series.
FetchOutcomes(network, header, sheet, day) ==
    LET failed(e) == {[ok |-> FALSE, df |-> <<>>, model_col |-> NoCol, error |-> e]}
    IN IF network = "down" THEN failed(FetchError)
       ELSE IF sheet = <<>> THEN failed(FrameError)
       ELSE LET cols == Columns(header)
                model_col == ResolveModelCol(cols)
            IN IF Ambiguous(cols, model_col) THEN failed(AmbiguousError)
               ELSE {[ok |-> TRUE, df |-> f, model_col |-> model_col,
                      error |-> NoError] :
                        f \in BuildFrames(cols, model_col, sheet, day)}

\* the locals of load_data before its try block has run
NoOut == [ok |-> FALSE, df |-> <<>>, model_col |-> NoCol, error |-> NoError]

ServedFromCache_Inverted(cache, force, now) ==
    /\ ~force
    /\ cache.loaded_at # None
    /\ now - cache.loaded_at > CACHE_SECONDS
    /\ cache.df # <<>>

ServedFromCache_IgnoresForce(cache, force, now) ==
    /\ cache.loaded_at # None
    /\ now - cache.loaded_at < CACHE_SECONDS
    /\ cache.df # <<>>

\* lines 213-216: load_data returns without fetching
ServedFromCache(cache, force, now) ==
    /\ ~force
    /\ cache.loaded_at # None
    /\ now - cache.loaded_at < CACHE_SECONDS
    /\ cache.df # <<>>

Publish_KeepsError(cache, now, out) ==
    [df |-> out.df, model_col |-> out.model_col, loaded_at |-> now,
     error |-> cache.error]

\* lines 262-265
Publish(cache, now, out) ==
    [df |-> out.df, model_col |-> out.model_col, loaded_at |-> now,
     error |-> NoError]

KeepOnFailure_Silent(cache, now, out) == [cache EXCEPT !.loaded_at = now]

KeepOnFailure_Drop(cache, now, out) ==
    [cache EXCEPT !.error = out.error, !.df = <<>>, !.loaded_at = now]

\* lines 268-273
KeepOnFailure(cache, now, out) ==
    [cache EXCEPT !.error = out.error,
                  !.df = IF cache.df = <<>> THEN <<>> ELSE cache.df,
                  !.loaded_at = now]

\* load_data(force), run to completion at time `now` with fetch outcome `out`
load_data(cache, force, now, out) ==
    IF ServedFromCache(cache, force, now) THEN cache
    ELSE IF out.ok THEN Publish(cache, now, out)
    ELSE KeepOnFailure(cache, now, out)

\* the history of one load_data call: who called, whether it fetched and
\* built a frame, and the cache it found (its frame, the seconds since
\* loaded_at and since the frame was built; None when there was none)
LoadRecord(op, cache, force, now, out) ==
    LET fetched == ~ServedFromCache(cache, force, now)
    IN [op |-> op, fetched |-> fetched, ok |-> fetched /\ out.ok,
        df |-> cache.df,
        age |-> IF cache.loaded_at = None THEN None ELSE now - cache.loaded_at,
        built_age |-> IF built_at = None THEN None ELSE now - built_at]

BuiltAt(cache, force, now, out) ==
    IF ~ServedFromCache(cache, force, now) /\ out.ok THEN now ELSE built_at

CacheInit ==
    [df |-> <<>>, model_col |-> NoCol, loaded_at |-> None, error |-> NoError]

\* ----------------------------------------------------------- the handlers
\* code points, in order, of the characters text is made of here
CodeOrder == <<" ", "-", ".", "0", "1", "2", "3", "4", "5", "6", "7", "8", "9">>
             \o Upper \o Lower
Code(c) == CHOOSE i \in DOMAIN CodeOrder : CodeOrder[i] = c

\* a < b for Python strings
RECURSIVE StrLess(_, _)
StrLess(a, b) ==
    IF b = <<>> THEN FALSE
    ELSE IF a = <<>> THEN TRUE
    ELSE IF Head(a) = Head(b) THEN StrLess(Tail(a), Tail(b))
    ELSE Code(Head(a)) < Code(Head(b))

InsertStr(acc, x) ==
    LET idx == {i \in DOMAIN acc : StrLess(x, acc[i])}
        pos == IF idx = {} THEN Len(acc) + 1
               ELSE CHOOSE i \in idx : \A j \in idx : i <= j
    IN SubSeq(acc, 1, pos - 1) \o <<x>> \o SubSeq(acc, pos, Len(acc))

RECURSIVE SortedFrom(_, _)
SortedFrom(acc, rest) ==
    IF rest = <<>> THEN acc ELSE SortedFrom(InsertStr(acc, Head(rest)), Tail(rest))

\* sorted(list of str)
sorted(list) == SortedFrom(<<>>, list)

\* Series.unique(): the distinct values, in order of first appearance
RECURSIVE UniqueFrom(_, _)
UniqueFrom(acc, rest) ==
    IF rest = <<>> THEN acc
    ELSE IF \E i \in DOMAIN acc : acc[i] = Head(rest)
         THEN UniqueFrom(acc, Tail(rest))
         ELSE UniqueFrom(Append(acc, Head(rest)), Tail(rest))
unique(col) == UniqueFrom(<<>>, col)

\* Series.dropna()
dropna(col) == SelectSeq(col, LAMBDA c : ~c.na)

Column(df, f) == [i \in DOMAIN df |-> df[i][f]]
TxtColumn(df, f) == [i \in DOMAIN df |-> Txt(df[i][f])]

\* ["All"] + sorted([safe_str(x) for x in col.dropna().unique().tolist()])
Options(col) ==
    LET u == unique(dropna(col))
    IN <<All>> \o sorted([i \in DOMAIN u |-> safe_str(u[i], Dash)])

age_order == <<B0_3, B4_10, B11_15, B16_30, B31_60, BAbove60>>

FilterOptionsResp(df) ==
    IF df = <<>>
    THEN [branches |-> <<All>>, statuses |-> <<All>>, age_buckets |-> <<All>>,
          sr_types |-> <<All>>, hold_reasons |-> <<All>>, model_names |-> <<All>>]
    ELSE LET present == SelectSeq(age_order,
                            LAMBDA x : \E i \in DOMAIN df : df[i].AGE_BUCKET = x)
         IN [branches |-> Options(Column(df, "dealer")),
             statuses |-> Options(Column(df, "status")),
             age_buckets |-> <<All>> \o present,
             sr_types |-> Options(Column(df, "sr")),
             hold_reasons |-> Options(TxtColumn(df, "HOLD_REASON_CLEAN")),
             model_names |-> Options(TxtColumn(df, "MODEL_NAME_CLEAN"))]

StatsResp(df, args) ==
    IF df = <<>>
    THEN [total_ros |-> 0, total_ro_amount |-> 0, total_parts_amount |-> 0,
          total_labor_amount |-> 0]
    ELSE LET filtered == apply_filters(df, args)
         IN [total_ros |-> Len(filtered),
             total_ro_amount |-> SumOf(filtered, "RO_AMOUNT_NUM"),
             total_parts_amount |-> SumOf(filtered, "PARTS_AMOUNT_NUM"),
             total_labor_amount |-> SumOf(filtered, "LABOR_AMOUNT_NUM")]

\* filtered.iloc[skip: skip + limit] if limit > 0 else filtered
Page(filtered, skip, limit) ==
    IF limit > 0 THEN Slice(filtered, skip, skip + limit) ELSE filtered

RowsResp(df, args, skip, limit) ==
    IF df = <<>>
    THEN [total_count |-> 0, filtered_count |-> 0, rows |-> <<>>]
    ELSE LET filtered == apply_filters(df, args)
             page == Page(filtered, skip, limit)
         IN [total_count |-> Len(df),
             filtered_count |-> Len(filtered),
             rows |-> [i \in DOMAIN page |-> json_row(page[i])]]

HealthResp(cache) ==
    [status |-> "ok", rows |-> Len(cache.df),
     cache_loaded_at |-> cache.loaded_at,
     cache_seconds |-> CACHE_SECONDS, error |-> cache.error]

ReloadResp(cache) ==
    [ok |-> TRUE, rows |-> Len(cache.df), model_col |-> cache.model_col,
     error |-> cache.error]

\* ------------------------------------------------------------- requests
ActiveText(k) ==
    CASE k = "branch" -> {<<"K">>}
      [] k = "status" -> {<<"O">>}
      [] k = "age_bucket" -> {B0_3}
      [] k = "sr_type" -> {<<"P">>}
      [] k = "hold_reason" -> {<<"W">>}
      [] k = "model_name" -> {<<"Q">>}
      [] k = "reg_search" -> {<<"a">>, <<".">>}
FromDates == {[fmt |-> "ymd", ts |-> 2 * DAY]}
ToDates == {[fmt |-> "ymd", ts |-> 2 * DAY],
            [fmt |-> "lenient", ts |-> 2 * DAY + DAY \div 2]}
\* how a request writes the keys it does not restrict: it leaves them out,
\* sends "All" (as the page does), or sends blank text
Styles(S) == IF S = {} THEN {"absent", "All", "blank"} ELSE {"absent", "All"}

\* the value of a key the request does not restrict, when it sends one
NeutralText(style, k) ==
    IF k = "reg_search" THEN (IF style = "blank" THEN <<" ">> ELSE <<>>)
    ELSE IF style = "blank" THEN <<>> ELSE All
NeutralDate(style) ==
    IF style = "absent" THEN [fmt |-> "absent", ts |-> 0] ELSE EmptyDate

TextChoices(T) ==
    {t \in [T -> UNION {ActiveText(k) : k \in TextKeys}] :
        \A k \in T : t[k] \in ActiveText(k)}

ArgsFor(S, style) ==
    LET T == S \cap TextKeys
        dom == IF style = "absent" THEN T ELSE TextKeys
    IN {[q |-> [k \in dom |-> IF k \in T THEN t[k] ELSE NeutralText(style, k)],
         from_date |-> fd, to_date |-> td] :
            t \in TextChoices(T),
            fd \in (IF "from_date" \in S THEN FromDates ELSE {NeutralDate(style)}),
            td \in (IF "to_date" \in S THEN ToDates ELSE {NeutralDate(style)})}

\* the query strings requests carry: at most MaxCriteria restricting criteria
ArgsSet ==
    UNION {UNION {ArgsFor(S, style) : style \in Styles(S)} :
             S \in {T \in SUBSET Keys : Cardinality(T) <= MaxCriteria}}

NoArgs == [q |-> <<>>, from_date |-> [fmt |-> "absent", ts |-> 0],
           to_date |-> [fmt |-> "absent", ts |-> 0]]

Request(endpoint, skip, limit) ==
    [endpoint |-> endpoint, skip |-> skip, limit |-> limit]

\* get_df() / load_data(force): the cache and its history after the call
Load(op, force) ==
    \E out \in (IF ServedFromCache(CACHE, force, clock) THEN {NoOut}
                ELSE FetchOutcomes(net, columns, remote, today)) :
        /\ CACHE' = load_data(CACHE, force, clock, out)
        /\ last' = LoadRecord(op, CACHE, force, clock, out)
        /\ built_at' = BuiltAt(CACHE, force, clock, out)

\* GET /health
Health ==
    /\ Load("get", FALSE)
    /\ req' = Request("health", 0, 0)
    /\ resp' = HealthResp(CACHE')
    /\ UNCHANGED <<clock, today, remote, columns, net, query, conc>>

\* GET /api/reload
ApiReload ==
    /\ Load("reload", TRUE)
    /\ req' = Request("reload", 0, 0)
    /\ resp' = ReloadResp(CACHE')
    /\ UNCHANGED <<clock, today, remote, columns, net, query, conc>>

\* GET /api/stats
Stats ==
    /\ Load("get", FALSE)
    /\ req' = Request("stats", 0, 0)
    /\ resp' = StatsResp(CACHE'.df, query)
    /\ UNCHANGED <<clock, today, remote, columns, net, query, conc>>

\* GET /api/rows
Rows ==
    \E skip \in 0..MaxSkip, limit \in -1..MaxLimit :
        /\ Load("get", FALSE)
        /\ req' = Request("rows", skip, limit)
        /\ resp' = RowsResp(CACHE'.df, query, skip, limit)
        /\ UNCHANGED <<clock, today, remote, columns, net, query, conc>>

\* GET /api/filter-options
FilterOptions ==
    /\ Load("get", FALSE)
    /\ req' = Request("filter-options", 0, 0)
    /\ resp' = FilterOptionsResp(CACHE'.df)
    /\ UNCHANGED <<clock, today, remote, columns, net, query, conc>>

\* ------------------------------------------------------- the environment
\* a second passes
Tick ==
    /\ clock < MaxClock
    /\ clock' = clock + 1
    /\ UNCHANGED <<CACHE, today, remote, columns, net, last, built_at, query, req, resp, conc>>

\* the sheet is edited
SheetEdited ==
    /\ remote' \in CacheSheets \ {remote}
    /\ UNCHANGED <<CACHE, clock, today, columns, net, last, built_at, query, req,
                   resp, conc>>

\* the network to the sheet goes down or comes back
NetChange ==
    /\ net' = IF net = "up" THEN "down" ELSE "up"
    /\ UNCHANGED <<CACHE, clock, today, remote, columns, last, built_at, query,
                   req, resp, conc>>

\* ------------------------------------------------------ request threads
\* Each thread serves /health and /api/reload requests, one statement of
\* load_data and of the handler at a time; the threads interleave between
\* statements.
Threads == {1, 2}

NoObs == [valid |-> FALSE, df |-> <<>>, loaded_at |-> None, error |-> NoError]
Idle == [pc |-> "idle", op |-> "none", now |-> 0, out |-> NoOut, obs |-> NoObs]

\* what a reader can see of the cache
Triple(cache) ==
    [df |-> cache.df, loaded_at |-> cache.loaded_at, error |-> cache.error]

\* pcs between a load's first write to CACHE and its last
Publishing == {"w_col", "w_at", "w_err", "e_chk", "e_df", "e_at"}

Goto(t, pc) == thr' = [thr EXCEPT ![t].pc = pc]

ConcFrame == UNCHANGED <<clock, today, remote, columns, net, last, built_at, query, req, resp>>

\* a request arrives: line 212 (now = datetime.now()) and `not force`
Start(t) ==
    /\ thr[t].pc = "idle"
    /\ served < MaxRequests
    /\ served' = served + 1
    /\ \E op \in {"get", "reload"} :
          thr' = [thr EXCEPT ![t] =
                    [Idle EXCEPT !.op = op, !.now = clock,
                                 !.pc = IF op = "reload" THEN "fetch" ELSE "chk_at"]]
    /\ UNCHANGED <<CACHE, stable>>
    /\ ConcFrame

\* line 213: CACHE["loaded_at"] is not None
CheckLoadedAt(t) ==
    /\ thr[t].pc = "chk_at"
    /\ Goto(t, IF CACHE.loaded_at = None THEN "fetch" ELSE "chk_age")
    /\ UNCHANGED <<CACHE, served, stable>>
    /\ ConcFrame

\* lines 214-215: age = now - CACHE["loaded_at"]; age < CACHE_SECONDS
CheckAge(t) ==
    /\ thr[t].pc = "chk_age"
    /\ Goto(t, IF thr[t].now - CACHE.loaded_at < CACHE_SECONDS
               THEN "chk_df" ELSE "fetch")
    /\ UNCHANGED <<CACHE, served, stable>>
    /\ ConcFrame

\* lines 215-216: CACHE["df"] is not empty: return
CheckDf(t) ==
    /\ thr[t].pc = "chk_df"
    /\ Goto(t, IF CACHE.df # <<>> THEN "r_df" ELSE "fetch")
    /\ UNCHANGED <<CACHE, served, stable>>
    /\ ConcFrame

\* lines 219-260: fetch the sheet and build the frame
Fetch(t) ==
    /\ thr[t].pc = "fetch"
    /\ \E out \in FetchOutcomes(net, columns, remote, today) :
          thr' = [thr EXCEPT ![t].out = out,
                             ![t].pc = IF out.ok THEN "w_df" ELSE "e_err"]
    /\ UNCHANGED <<CACHE, served, stable>>
    /\ ConcFrame

\* the cache after a load's last write is what readers may see, unless
\* another load is between its writes
Settled(t, cache) ==
    IF \E u \in Threads \ {t} : thr[u].pc \in Publishing
    THEN stable
    ELSE stable \cup {Triple(cache)}

\* line 262: CACHE["df"] = df
WriteDf(t) ==
    /\ thr[t].pc = "w_df"
    /\ CACHE' = [CACHE EXCEPT !.df = thr[t].out.df]
    /\ Goto(t, "w_col")
    /\ UNCHANGED <<served, stable>>
    /\ ConcFrame

\* line 263: CACHE["model_col"] = model_col
WriteModelCol(t) ==
    /\ thr[t].pc = "w_col"
    /\ CACHE' = [CACHE EXCEPT !.model_col = thr[t].out.model_col]
    /\ Goto(t, "w_at")
    /\ UNCHANGED <<served, stable>>
    /\ ConcFrame

\* line 264: CACHE["loaded_at"] = now
WriteLoadedAt(t) ==
    /\ thr[t].pc = "w_at"
    /\ CACHE' = [CACHE EXCEPT !.loaded_at = thr[t].now]
    /\ Goto(t, "w_err")
    /\ UNCHANGED <<served, stable>>
    /\ ConcFrame

\* line 265: CACHE["error"] = None
WriteNoError(t) ==
    /\ thr[t].pc = "w_err"
    /\ CACHE' = [CACHE EXCEPT !.error = NoError]
    /\ stable' = Settled(t, CACHE')
    /\ Goto(t, "r_df")
    /\ UNCHANGED served
    /\ ConcFrame

\* line 269: CACHE["error"] = str(e)
ExceptError(t) ==
    /\ thr[t].pc = "e_err"
    /\ CACHE' = [CACHE EXCEPT !.error = thr[t].out.error]
    /\ Goto(t, "e_chk")
    /\ UNCHANGED <<served, stable>>
    /\ ConcFrame

\* line 271: if CACHE["df"] is None or CACHE["df"].empty
ExceptCheck(t) ==
    /\ thr[t].pc = "e_chk"
    /\ Goto(t, IF CACHE.df = <<>> THEN "e_df" ELSE "e_at")
    /\ UNCHANGED <<CACHE, served, stable>>
    /\ ConcFrame

\* line 272: CACHE["df"] = pd.DataFrame()
ExceptEmpty(t) ==
    /\ thr[t].pc = "e_df"
    /\ CACHE' = [CACHE EXCEPT !.df = <<>>]
    /\ Goto(t, "e_at")
    /\ UNCHANGED <<served, stable>>
    /\ ConcFrame

\* line 273: CACHE["loaded_at"] = now
ExceptLoadedAt(t) ==
    /\ thr[t].pc = "e_at"
    /\ CACHE' = [CACHE EXCEPT !.loaded_at = thr[t].now]
    /\ stable' = Settled(t, CACHE')
    /\ Goto(t, "r_df")
    /\ UNCHANGED served
    /\ ConcFrame

\* lines 278 and 362, or line 374: df = CACHE["df"]
ReadDf(t) ==
    /\ thr[t].pc = "r_df"
    /\ thr' = [thr EXCEPT ![t].obs.df = CACHE.df, ![t].pc = "r_at"]
    /\ UNCHANGED <<CACHE, served, stable>>
    /\ ConcFrame

\* line 366: CACHE["loaded_at"] (for /api/reload, line 378: CACHE["model_col"])
ReadLoadedAt(t) ==
    /\ thr[t].pc = "r_at"
    /\ thr' = [thr EXCEPT ![t].obs.loaded_at = CACHE.loaded_at, ![t].pc = "r_err"]
    /\ UNCHANGED <<CACHE, served, stable>>
    /\ ConcFrame

\* line 368 or 379: CACHE["error"]; the response is sent
ReadError(t) ==
    /\ thr[t].pc = "r_err"
    /\ thr' = [thr EXCEPT ![t] =
                 [Idle EXCEPT !.obs = [thr[t].obs EXCEPT !.error = CACHE.error,
                                                         !.valid = TRUE]]]
    /\ UNCHANGED <<CACHE, served, stable>>
    /\ ConcFrame

Step(t) ==
    \/ Start(t)
    \/ CheckLoadedAt(t) \/ CheckAge(t) \/ CheckDf(t)
    \/ Fetch(t)
    \/ WriteDf(t) \/ WriteModelCol(t) \/ WriteLoadedAt(t) \/ WriteNoError(t)
    \/ ExceptError(t) \/ ExceptCheck(t) \/ ExceptEmpty(t) \/ ExceptLoadedAt(t)
    \/ ReadDf(t) \/ ReadLoadedAt(t) \/ ReadError(t)

StateInit ==
    /\ CACHE = CacheInit
    /\ clock = 0
    /\ net \in {"up", "down"}
    /\ last = [op |-> "none", fetched |-> FALSE, ok |-> FALSE, df |-> <<>>,
               age |-> None, built_age |-> None]
    /\ built_at = None
    /\ req = Request("none", 0, 0)
    /\ resp = [status |-> "none"]
    /\ thr = [t \in Threads |-> Idle]
    /\ served = 0
    /\ stable = {Triple(CacheInit)}

\* The query endpoints at one instant, over any sheet and any query string.
\* With the network down the sheet is never read, so few sheets are tried.
Init ==
    /\ StateInit
    /\ today \in Todays
    /\ columns = <<L_ModelName>>
    /\ remote \in (IF net = "up" THEN Sheets ELSE CacheSheets)
    /\ query \in ArgsSet
Next == Stats \/ Rows \/ FilterOptions
Spec == Init /\ [][Next]_vars

\* The cache over time: reads, forced reloads, the clock and the source.
InitCache ==
    /\ StateInit
    /\ today \in Todays
    /\ columns = <<L_ModelName>>
    /\ remote \in CacheSheets
    /\ query = NoArgs
NextCache == Health \/ ApiReload \/ Tick \/ SheetEdited \/ NetChange
SpecCache == InitCache /\ [][NextCache]_vars

\* The loader alone, over sheets, headers and days.
InitLoad ==
    /\ StateInit
    /\ today \in LoadDays
    /\ columns \in ColumnLists
    /\ remote \in LoadSheets
    /\ query = NoArgs
NextLoad == ApiReload
SpecLoad == InitLoad /\ [][NextLoad]_vars

\* Requests served by interleaved threads.
InitConc ==
    /\ StateInit
    /\ today \in Todays
    /\ columns = <<L_ModelName>>
    /\ remote \in ConcSheets
    /\ query = NoArgs
TickConc == clock < MaxConcClock /\ Tick
NextConc == (\E t \in Threads : Step(t)) \/ TickConc \/ NetChange
SpecConc == InitConc /\ [][NextConc]_vars

\* ------------------------------------------------------------ properties
InSeq(x, seq) == \E i \in DOMAIN seq : seq[i] = x

\* f is s with some elements left out
IsSubsequence(f, s) ==
    \E idx \in [DOMAIN f -> DOMAIN s] :
        /\ \A i, j \in DOMAIN f : i < j => idx[i] < idx[j]
        /\ \A i \in DOMAIN f : s[idx[i]] = f[i]

\* the query string restricts nothing: each key is left out or is "All"
NoCriteria(args) ==
    /\ \A k \in DOMAIN args.q :
          args.q[k] = All \/ (k = "reg_search" /\ args.q[k] = <<>>)
    /\ args.from_date.fmt \in {"absent", "empty"}
    /\ args.to_date.fmt \in {"absent", "empty"}

Served == req.endpoint # "none"

\* C1: a load attempt that fetched and failed while the cache held rows left
\* the rows and their order as they were and put the failure in the error
\* field.
C1_FailurePreservesData ==
    (last.fetched /\ ~last.ok /\ last.df # <<>>) =>
        /\ CACHE.df = last.df
        /\ CACHE.error # NoError

C1_Witness ==
    /\ last.op = "get"
    /\ last.fetched /\ ~last.ok
    /\ Len(last.df) = 2
    /\ last.age >= CACHE_SECONDS
    /\ CACHE.df = last.df
    /\ CACHE.error = FetchError

C3_ForceReloadFetches ==
    [][ApiReload =>
         /\ last'.fetched
         /\ (\E out \in FetchOutcomes(net, columns, remote, today) : out.ok) =>
               /\ CACHE'.df \in {out.df : out \in FetchOutcomes(net, columns, remote, today)}
               /\ CACHE'.loaded_at = clock
               /\ CACHE'.error = NoError]_vars

C3_Witness ==
    /\ last.op = "reload"
    /\ last.fetched /\ last.ok
    /\ last.age # None /\ last.age < CACHE_SECONDS
    /\ last.df # <<>>
    /\ CACHE.df # last.df
    /\ CACHE.error = NoError

\* C4: a get() that finds a frame built more than CACHE_SECONDS ago fetches,
\* also when load attempts since the frame was built have failed.
C4_TtlBoundsSnapshotAge ==
    (last.op = "get" /\ last.built_age # None /\ last.built_age > CACHE_SECONDS)
        => last.fetched

\* C5: what a request read of the cache (the frame, loaded_at, error) is what
\* the cache held at a moment when no load was publishing: all of it from
\* before a publish or all of it from after.
C5_NoTornRead ==
    \A t \in Threads :
        thr[t].obs.valid =>
            [df |-> thr[t].obs.df, loaded_at |-> thr[t].obs.loaded_at,
             error |-> thr[t].obs.error] \in stable

\* C6: while no load has ever succeeded, every query that was served got the
\* empty result of its endpoint (stats all 0, rows 0/0/[], filter-options all
\* ["All"]), the cache holds no rows and its error field holds the failure.
C6_EmptyButValid ==
    (Served /\ built_at = None) =>
        /\ CACHE.df = <<>>
        /\ CACHE.error # NoError
        /\ req.endpoint = "stats" =>
              resp = [total_ros |-> 0, total_ro_amount |-> 0,
                      total_parts_amount |-> 0, total_labor_amount |-> 0]
        /\ req.endpoint = "rows" =>
              resp = [total_count |-> 0, filtered_count |-> 0, rows |-> <<>>]
        /\ req.endpoint = "filter-options" =>
              \A k \in DOMAIN resp : resp[k] = <<All>>

C6_Witness ==
    /\ req.endpoint = "rows"
    /\ built_at = None
    /\ last.fetched /\ ~last.ok
    /\ net = "down"
    /\ remote # <<>>
    /\ ~NoCriteria(query)

\* C7: the filtered frame is a subsequence of the snapshot, in the snapshot's
\* order, and is the snapshot itself when the query string restricts nothing.
C7_FilterSubsequence ==
    LET filtered == apply_filters(CACHE.df, query)
    IN /\ IsSubsequence(filtered, CACHE.df)
       /\ NoCriteria(query) => filtered = CACHE.df

C7_Witness ==
    /\ req.endpoint \in {"stats", "rows"}
    /\ Len(CACHE.df) = 2
    /\ CACHE.df[1] # CACHE.df[2]
    /\ apply_filters(CACHE.df, query) = <<CACHE.df[2]>>

\* txt holds pat as a substring
Contains(pat, txt) ==
    \E off \in 0..(Len(txt) - Len(pat)) :
        \A j \in 1..Len(pat) : pat[j] = txt[off + j]

\* the cell holds exactly the text v
CellIs(cell, v) == ~cell.na /\ cell.s = v

\* the record satisfies every criterion of the query string that restricts
Satisfies(r, args) ==
    LET crit(k) == Get(args, k, All)
        search == Strip(Get(args, "reg_search", <<>>))
        fd == parse_iso_yyyy_mm_dd(GetDate(args.from_date))
        td == parse_iso_yyyy_mm_dd(GetDate(args.to_date))
    IN /\ Restricts(crit("branch")) => CellIs(r.dealer, crit("branch"))
       /\ Restricts(crit("status")) => CellIs(r.status, crit("status"))
       /\ Restricts(crit("sr_type")) => CellIs(r.sr, crit("sr_type"))
       /\ Restricts(crit("age_bucket")) => r.AGE_BUCKET = crit("age_bucket")
       /\ Restricts(crit("hold_reason")) => r.HOLD_REASON_CLEAN = crit("hold_reason")
       /\ Restricts(crit("model_name")) => r.MODEL_NAME_CLEAN = crit("model_name")
       /\ search # <<>> =>
             ~r.reg.na /\ Contains(StrUpper(search), StrUpper(r.reg.s))
       /\ fd # None => r.RO_DATE_DT # NaT /\ r.RO_DATE_DT >= fd
       /\ td # None => r.RO_DATE_DT # NaT /\ r.RO_DATE_DT <= td + DAY - SECOND

\* C8: a record is in the filtered frame exactly when it satisfies every
\* criterion that restricts; the registration search is plain case-insensitive
\* substring containment.
C8_FiltersAreConjunction ==
    apply_filters(CACHE.df, query) =
        SelectSeq(CACHE.df, LAMBDA r : Satisfies(r, query))

\* C9: with from_date set a record passes only from the start of that day on;
\* with to_date set every record of that calendar day passes and none of a
\* later day; a record with no date passes neither bound.
C9_DateRangeInclusive ==
    LET fd == parse_iso_yyyy_mm_dd(GetDate(query.from_date))
        td == parse_iso_yyyy_mm_dd(GetDate(query.to_date))
    IN \A i \in DOMAIN CACHE.df :
         LET r == CACHE.df[i]
             dt == r.RO_DATE_DT
         IN /\ (fd # None /\ InSeq(r, by_from_date(CACHE.df, fd))) =>
                  dt # NaT /\ dt >= DayStart(fd)
            /\ (td # None /\ dt # NaT /\ DayStart(dt) = DayStart(td)) =>
                  InSeq(r, by_to_date(CACHE.df, td))
            /\ (td # None /\ dt # NaT /\ DayStart(dt) > DayStart(td)) =>
                  ~InSeq(r, by_to_date(CACHE.df, td))
            /\ (fd # None /\ dt = NaT) => ~InSeq(r, by_from_date(CACHE.df, fd))
            /\ (td # None /\ dt = NaT) => ~InSeq(r, by_to_date(CACHE.df, td))

\* C10: a rows query returns the records [skip, skip+limit) of the filtered
\* frame when limit > 0 and the records from skip onward when limit <= 0;
\* filtered_count and total_count are the lengths of the filtered frame and
\* of the snapshot.
C10_Paging ==
    req.endpoint = "rows" =>
        LET filtered == apply_filters(CACHE.df, query)
            page == IF req.limit > 0
                    THEN Slice(filtered, req.skip, req.skip + req.limit)
                    ELSE Slice(filtered, req.skip, Len(filtered))
        IN /\ resp.rows = [i \in DOMAIN page |-> json_row(page[i])]
           /\ resp.filtered_count = Len(filtered)
           /\ resp.total_count = Len(CACHE.df)

\* the arithmetic sum of column f over the records of seq
ArithSum(seq, f) ==
    LET S[n \in 0..Len(seq)] == IF n = 0 THEN 0 ELSE S[n - 1] + seq[n][f]
    IN S[Len(seq)]

\* C11: a stats query returns the number of filtered records and, for each of
\* the three amounts, the arithmetic sum of the parsed amount over exactly the
\* filtered records, negative amounts with their sign; over no records, 0.
C11_Aggregation ==
    req.endpoint = "stats" =>
        LET filtered == apply_filters(CACHE.df, query)
        IN /\ resp.total_ros = Len(filtered)
           /\ resp.total_ro_amount = ArithSum(filtered, "RO_AMOUNT_NUM")
           /\ resp.total_parts_amount = ArithSum(filtered, "PARTS_AMOUNT_NUM")
           /\ resp.total_labor_amount = ArithSum(filtered, "LABOR_AMOUNT_NUM")
           /\ filtered = <<>> =>
                 /\ resp.total_ro_amount = 0
                 /\ resp.total_parts_amount = 0
                 /\ resp.total_labor_amount = 0

C11_Witness ==
    /\ req.endpoint = "stats"
    /\ Len(CACHE.df) = 2
    /\ resp.total_ros = 1
    /\ resp.total_ro_amount < 0

\* r placed before the first element it sorts strictly before
StableInsert(acc, r) ==
    LET idx == {i \in DOMAIN acc : SortsBefore(r, acc[i])}
        pos == IF idx = {} THEN Len(acc) + 1
               ELSE CHOOSE i \in idx : \A j \in idx : i <= j
    IN SubSeq(acc, 1, pos - 1) \o <<r>> \o SubSeq(acc, pos, Len(acc))

RECURSIVE StableSortFrom(_, _)
StableSortFrom(acc, rest) ==
    IF rest = <<>> THEN acc
    ELSE StableSortFrom(StableInsert(acc, Head(rest)), Tail(rest))

\* df by descending date, no date last, ties in the order they have in df
StableSorted(df) == StableSortFrom(<<>>, df)

\* C12: the frame a successful load published is the sheet's records by
\* descending date with the undated records last, records of equal date (and
\* the undated records) in the order the sheet has them.
C12_SortedStable ==
    (last.fetched /\ last.ok) =>
        CACHE.df = StableSorted(EnrichAll(Columns(columns), CACHE.model_col,
                                          remote, today))

\* C13: in a published frame every record has DAYS_OPEN >= 0, the whole days
\* from its date to the load day, 0 when it has no date or a later date, and
\* its AGE_BUCKET is the bucket of DAYS_OPEN: 0..3, 4..10, 11..15, 16..30,
\* 31..60, above 60.
C13_DaysOpenAndBucket ==
    (last.fetched /\ last.ok) =>
        \A i \in DOMAIN CACHE.df :
            LET r == CACHE.df[i]
                dt == r.RO_DATE_DT
                d == r.DAYS_OPEN
                load_day == today * DAY
            IN /\ d >= 0
               /\ (dt = NaT \/ dt > load_day) => d = 0
               /\ (dt # NaT /\ dt <= load_day) =>
                     /\ d * DAY <= load_day - dt
                     /\ load_day - dt < (d + 1) * DAY
               /\ r.AGE_BUCKET =
                     CASE d \in 0..3 -> B0_3
                       [] d \in 4..10 -> B4_10
                       [] d \in 11..15 -> B11_15
                       [] d \in 16..30 -> B16_30
                       [] d \in 31..60 -> B31_60
                       [] OTHER -> BAbove60

C13_Witness ==
    /\ last.fetched /\ last.ok
    /\ Len(CACHE.df) = 2
    /\ CACHE.df[1].DAYS_OPEN = 60 /\ CACHE.df[1].AGE_BUCKET = B31_60
    /\ CACHE.df[2].RO_DATE_DT = NaT /\ CACHE.df[2].DAYS_OPEN = 0

\* the list is "All" followed by exactly the given values, each once, in
\* ascending order
ListsOnceAscending(list, values) ==
    /\ list # <<>> /\ Head(list) = All
    /\ \A i \in 2..(Len(list) - 1) : StrLess(list[i], list[i + 1])
    /\ {list[i] : i \in 2..Len(list)} = values

\* the values a column of the frame holds, as text without surrounding blanks
ValuesOf(df, f) ==
    {safe_str(df[i][f], Dash) : i \in {j \in DOMAIN df : ~df[j][f].na}}

\* C14: for a frame with rows, each of the branch, status, SR type, hold
\* reason and model name lists is "All" followed by the values in the frame,
\* each once, ascending; the age bucket list is "All" followed by the buckets
\* some record has, in the order 0-3, 4-10, 11-15, 16-30, 31-60, Above 60.
C14_FilterOptions ==
    (req.endpoint = "filter-options" /\ CACHE.df # <<>>) =>
        LET df == CACHE.df
            canonical == <<B0_3, B4_10, B11_15, B16_30, B31_60, BAbove60>>
            has(b) == \E i \in DOMAIN df : df[i].AGE_BUCKET = b
        IN /\ ListsOnceAscending(resp.branches, ValuesOf(df, "dealer"))
           /\ ListsOnceAscending(resp.statuses, ValuesOf(df, "status"))
           /\ ListsOnceAscending(resp.sr_types, ValuesOf(df, "sr"))
           /\ ListsOnceAscending(resp.hold_reasons,
                                 {df[i].HOLD_REASON_CLEAN : i \in DOMAIN df})
           /\ ListsOnceAscending(resp.model_names,
                                 {df[i].MODEL_NAME_CLEAN : i \in DOMAIN df})
           /\ resp.age_buckets = <<All>> \o SelectSeq(canonical, has)

\* the query string with `key` as its only criterion
OnlyCriterion(key, v) ==
    [q |-> [k \in {key} |-> v],
     from_date |-> [fmt |-> "absent", ts |-> 0],
     to_date |-> [fmt |-> "absent", ts |-> 0]]

\* every value of the list but "All", as the only criterion, selects a record
EachSelects(df, list, key) ==
    \A i \in DOMAIN list :
        list[i] # All => apply_filters(df, OnlyCriterion(key, list[i])) # <<>>

\* C19: for a frame with rows, every value but "All" that filter-options
\* lists for branch, status, SR type, hold reason, model name or age bucket
\* selects at least one record when it is the only criterion of the filter.
C19_OptionsSelect ==
    (req.endpoint = "filter-options" /\ CACHE.df # <<>>) =>
        /\ EachSelects(CACHE.df, resp.branches, "branch")
        /\ EachSelects(CACHE.df, resp.statuses, "status")
        /\ EachSelects(CACHE.df, resp.sr_types, "sr_type")
        /\ EachSelects(CACHE.df, resp.hold_reasons, "hold_reason")
        /\ EachSelects(CACHE.df, resp.model_names, "model_name")
        /\ EachSelects(CACHE.df, resp.age_buckets, "age_bucket")

\* the label, trimmed and in lower case
Key(label) == StrLower(Strip(label))

\* the model name a cell gives: its text trimmed, "Unknown" when blank
CleanModel(cell) ==
    IF cell.na \/ Strip(cell.s) = <<>> THEN Unknown ELSE Strip(cell.s)

\* C15: a load of a sheet with rows uses the column matched, after trimming
\* and ignoring case, by the earliest candidate of MODEL_CANDIDATES that
\* matches a column of the sheet, and every record's model name comes from
\* that column; when no candidate matches a column, the model column is a
\* synthesized "Model Name" and every record's model name is "Unknown".
C15_ModelColumn ==
    (last.op = "reload" /\ net = "up" /\ remote # <<>>) =>
        LET matches(n) ==
                \E i \in DOMAIN columns : Key(columns[i]) = Key(MODEL_CANDIDATES[n])
            hits == {n \in DOMAIN MODEL_CANDIDATES : matches(n)}
            first == CHOOSE n \in hits : \A m \in hits : n <= m
            used == {i \in DOMAIN columns : Strip(columns[i]) = CACHE.model_col}
            cell(r, i) == IF i = 1 THEN r.model ELSE r.alt
        IN /\ Len(CACHE.df) = Len(remote)
           /\ IF hits = {}
              THEN /\ CACHE.model_col = L_ModelName
                   /\ \A i \in DOMAIN CACHE.df :
                         CACHE.df[i].MODEL_NAME_CLEAN = Unknown
              ELSE /\ Key(CACHE.model_col) = Key(MODEL_CANDIDATES[first])
                   /\ \E i \in used :
                         \A k \in DOMAIN CACHE.df :
                            \E j \in DOMAIN remote :
                               /\ CACHE.df[k].ro = remote[j].ro
                               /\ CACHE.df[k].MODEL_NAME_CLEAN =
                                     CleanModel(cell(remote[j], i))

\* C15 for the sheets whose labels differ once they are trimmed
C15_DistinctLabels ==
    (\A i, j \in DOMAIN columns :
        i # j => Strip(columns[i]) # Strip(columns[j])) => C15_ModelColumn

\* C16: while threads interleave, the error handling of a failed load never
\* replaces a frame that has rows by the empty frame.
C16_FailureKeepsRows ==
    [][\A t \in Threads : ExceptEmpty(t) => CACHE.df = <<>>]_vars

\* C17: while threads interleave, loaded_at never decreases.
C17_LoadedAtMonotone ==
    [][CACHE'.loaded_at >= CACHE.loaded_at]_vars

\* C18: in a sequential series of /health and /api/reload requests, a load
\* that fetched and succeeded leaves the error field null, a load that fetched
\* and failed leaves it holding the failure message, and a get() served from
\* the cache leaves it as it was; so the field is non-null exactly when the
\* last attempt that fetched failed.
C18_ErrorTracksLastFetch ==
    [][(Health \/ ApiReload) =>
         /\ (last'.fetched /\ last'.ok) => CACHE'.error = NoError
         /\ (last'.fetched /\ ~last'.ok) =>
               /\ CACHE'.error # NoError
               /\ \E out \in FetchOutcomes(net, columns, remote, today) :
                     CACHE'.error = out.error
         /\ ~last'.fetched => CACHE'.error = CACHE.error]_vars

C18_Witness ==
    /\ last.op = "get"
    /\ ~last.fetched
    /\ CACHE.error = FetchError
    /\ CACHE.df # <<>>

====
